---- MODULE Spec2Model ----
(***************************************************************************)
(* Health Tracker (NobleVision/HEALTH): the Analytics Engine of            *)
(* src/lib/analytics.ts and the request handlers of src/app/api.           *)
(*                                                                         *)
(* Numbers.  A metric value is a DECIMAL(10,2); it is modelled by its      *)
(* number of hundredths ("cents"), an integer.  Means, slopes and          *)
(* intercepts are exact fractions <<numerator, denominator>> with a        *)
(* positive denominator, so the arithmetic of the model is the real        *)
(* arithmetic the double computations of the code approximate.  A double   *)
(* that may be non-finite is a record [kind, cents].                       *)
(***************************************************************************)
EXTENDS Integers, Sequences, FiniteSets, TLC

VARIABLES
    series,      \* number[] handed to calculateTrend / projectNext7Days
    trend,       \* what calculateTrend(series) returned, "none" before the call
    projection,  \* what projectNext7Days(series) returned
    projected,   \* TRUE once projectNext7Days(series) has returned
    batch,       \* HealthMetric[] handed to analyzeMetrics
    analysis,    \* MetricAnalysis[] it returned
    analyzed,    \* TRUE once analyzeMetrics(batch) has returned or thrown
    users,          \* the store's users table
    health_metrics, \* the store's health_metrics table
    request,        \* the request being answered: handler, parameters, and
                    \* what the store and the text-generation API do during it
    response,       \* the response the handler returned
    sqlLog,         \* the statements the handler sent to the store
    openaiCalls,    \* calls of openai.chat.completions.create in the request
    analysisError,  \* TRUE when analyzeMetrics(batch) threw
    retry,          \* one call of query (db-serverless) or retryWithTimeout
    arg,            \* an array handed to an Analytics Engine function, and
                    \* what the calls on it returned
    schema,         \* the tables and indexes the store has
    page,           \* a mounted Dashboard or AIInsights component
    auth            \* AuthProvider's state and the browser's localStorage

analyticsVars == <<series, trend, projection, projected, batch, analysis, analyzed,
                   analysisError>>
apiVars == <<users, health_metrics, request, response, sqlLog, openaiCalls>>
retryVars == <<retry>>
clientVars == <<arg, schema, page, auth>>
vars == <<series, trend, projection, projected, batch, analysis, analyzed,
          analysisError, users, health_metrics, request, response, sqlLog, openaiCalls, retry,
          arg, schema, page, auth>>

(***************************************************************************)
(* Bounds of the model.                                                    *)
(***************************************************************************)
MaxLen == 4
MaxBatch == 3
MaxStored == 2
MaxReply == 3
MaxRetriesBound == 4
MaxPrefix == 2
MaxFetches == 3
MaxCalls == 4

(***************************************************************************)
(* Exact arithmetic.                                                       *)
(***************************************************************************)
Abs(x) == IF x < 0 THEN -x ELSE x

Min(a, b) == IF a < b THEN a ELSE b

RECURSIVE Sum(_)
Sum(s) == IF s = <<>> THEN 0 ELSE Head(s) + Sum(Tail(s))

Frac(n, d) == <<n, d>>
FracSub(a, b) == <<a[1] * b[2] - b[1] * a[2], a[2] * b[2]>>
FracMul(a, b) == <<a[1] * b[1], a[2] * b[2]>>
FracAbs(a) == <<Abs(a[1]), a[2]>>
FracLess(a, b) == a[1] * b[2] < b[1] * a[2]

\* truncation where Math.round is meant
MathTrunc(p, q) == p \div q

\* Math.round(p / q) for q > 0: the nearest integer, a tie going up.
MathRound(p, q) == (2 * p + q) \div (2 * q)

Finite(c) == [kind |-> "finite", cents |-> c]
NaN == [kind |-> "NaN", cents |-> 0]

(***************************************************************************)
(* calculateTrend (analytics.ts 55-69).                                    *)
(***************************************************************************)
\* calculateTrend with the threshold test written <= instead of <
calculateTrendInclusive(values) ==
    IF Len(values) < 2 THEN "stable"
    ELSE
        LET mid == Len(values) \div 2
            firstHalf == SubSeq(values, 1, mid)
            secondHalf == SubSeq(values, mid + 1, Len(values))
            firstAvg == Frac(Sum(firstHalf), Len(firstHalf))
            secondAvg == Frac(Sum(secondHalf), Len(secondHalf))
            change == FracSub(secondAvg, firstAvg)
        IN  IF ~FracLess(FracMul(firstAvg, Frac(5, 100)), FracAbs(change))
            THEN "stable"
            ELSE IF FracLess(change, Frac(0, 1)) THEN "improving" ELSE "declining"

calculateTrend(values) ==
    IF Len(values) < 2 THEN "stable"
    ELSE
        LET mid == Len(values) \div 2
            firstHalf == SubSeq(values, 1, mid)
            secondHalf == SubSeq(values, mid + 1, Len(values))
            firstAvg == Frac(Sum(firstHalf), Len(firstHalf))
            secondAvg == Frac(Sum(secondHalf), Len(secondHalf))
            change == FracSub(secondAvg, firstAvg)
        IN  IF FracLess(FracAbs(change), FracMul(firstAvg, Frac(5, 100)))
            THEN "stable"
            ELSE IF FracLess(change, Frac(0, 1)) THEN "improving" ELSE "declining"

(***************************************************************************)
(* projectNext7Days (analytics.ts 71-99).  The values are cents, so the    *)
(* rounding to 2 decimals is the rounding of the cents to an integer.      *)
(***************************************************************************)
FitWindow == 14
Horizon == 7

RECURSIVE SumIdx(_, _)
\* sum over i = 0 .. Len(s)-1 of f(i, s[i]) with f given by kind
SumIdx(s, kind) ==
    IF s = <<>> THEN 0
    ELSE LET i == Len(s) - 1
             y == s[Len(s)]
             term == CASE kind = "x" -> i
                       [] kind = "y" -> y
                       [] kind = "xy" -> i * y
                       [] kind = "x2" -> i * i
         IN  term + SumIdx(SubSeq(s, 1, Len(s) - 1), kind)

\* the regression over every value, with no window
projectWholeSeries(values) ==
    IF Len(values) = 0 THEN <<>>
    ELSE
        LET n == Len(values)
            sumX == SumIdx(values, "x")
            sumY == SumIdx(values, "y")
            num == n * SumIdx(values, "xy") - sumX * sumY
            den == n * SumIdx(values, "x2") - sumX * sumX
        IN  IF den = 0 THEN [i \in 1..Horizon |-> NaN]
            ELSE [i \in 1..Horizon |->
                    Finite(MathRound((sumY * den - num * sumX) + num * (n + i) * n,
                                     n * den))]

\* the regression that gives up on a window it cannot fit a line to
projectFittedOnly(values) ==
    IF Len(values) <= 1 THEN <<>>
    ELSE
        LET n == Min(Len(values), FitWindow)
            recentValues == SubSeq(values, Len(values) - n + 1, Len(values))
            sumX == SumIdx(recentValues, "x")
            sumY == SumIdx(recentValues, "y")
            num == n * SumIdx(recentValues, "xy") - sumX * sumY
            den == n * SumIdx(recentValues, "x2") - sumX * sumX
        IN  [i \in 1..Horizon |->
                Finite(MathRound((sumY * den - num * sumX) + num * (n + i) * n,
                                 n * den))]

\* the regression read off from the position after the window on
projectFromNextPosition(values) ==
    IF Len(values) = 0 THEN <<>>
    ELSE
        LET n == Min(Len(values), FitWindow)
            recentValues == SubSeq(values, Len(values) - n + 1, Len(values))
            sumX == SumIdx(recentValues, "x")
            sumY == SumIdx(recentValues, "y")
            num == n * SumIdx(recentValues, "xy") - sumX * sumY
            den == n * SumIdx(recentValues, "x2") - sumX * sumX
        IN  IF den = 0 THEN [i \in 1..Horizon |-> NaN]
            ELSE [i \in 1..Horizon |->
                    Finite(MathRound((sumY * den - num * sumX) + num * (n + i - 1) * n,
                                     n * den))]

projectNext7Days(values) ==
    IF Len(values) = 0 THEN <<>>
    ELSE
        LET n == Min(Len(values), FitWindow)
            recentValues == SubSeq(values, Len(values) - n + 1, Len(values))
            sumX == SumIdx(recentValues, "x")
            sumY == SumIdx(recentValues, "y")
            sumXY == SumIdx(recentValues, "xy")
            sumX2 == SumIdx(recentValues, "x2")
            num == n * sumXY - sumX * sumY
            den == n * sumX2 - sumX * sumX
        IN  \* den = 0: the division gives NaN (0/0) or an infinity, the
            \* intercept and every sum with it are NaN, Math.round(NaN) is NaN
            IF den = 0 THEN [i \in 1..Horizon |-> NaN]
            ELSE [i \in 1..Horizon |->
                    \* intercept + slope * (length + i)
                    \*   = (sumY*den - num*sumX) / (n*den) + num*(length+i) / den
                    Finite(MathRound((sumY * den - num * sumX)
                                       + num * (Len(recentValues) + i) * n,
                                     n * den))]

(***************************************************************************)
(* groupMetricsByType (analytics.ts 33-44).  The object it builds is       *)
(* modelled by its own entries in insertion order, and by whether the      *)
(* reduce threw.  The accumulator is a plain {}: a key it does not own is  *)
(* still looked up on Object.prototype.                                    *)
(***************************************************************************)
\* keys every plain object inherits a truthy value for
PrototypeKeys == {"constructor", "toString", "valueOf", "hasOwnProperty", "__proto__"}

\* the keys that are canonical array indices, and the number each denotes
IntegerKeys == ("7" :> 7) @@ ("10" :> 10)

EmptyObject == [entries |-> <<>>, threw |-> FALSE]

\* one call of the reducer: acc[key] is the own list, else the inherited
\* value (truthy, and without a push method: a TypeError), else undefined
AddToGroup(acc, metric) ==
    IF acc.threw THEN acc
    ELSE IF \E g \in 1..Len(acc.entries) : acc.entries[g].key = metric.metric_type
    THEN [acc EXCEPT !.entries =
            [g \in 1..Len(acc.entries) |->
                IF acc.entries[g].key = metric.metric_type
                THEN [acc.entries[g] EXCEPT !.list = Append(@, metric)]
                ELSE acc.entries[g]]]
    ELSE IF metric.metric_type \in PrototypeKeys
    THEN [acc EXCEPT !.threw = TRUE]
    ELSE [acc EXCEPT !.entries =
            Append(@, [key |-> metric.metric_type, list |-> <<metric>>])]

RECURSIVE groupMetricsByType(_)
groupMetricsByType(metrics) ==
    IF metrics = <<>> THEN EmptyObject
    ELSE AddToGroup(groupMetricsByType(SubSeq(metrics, 1, Len(metrics) - 1)),
                    metrics[Len(metrics)])

\* Object.entries: the array-index keys first, in ascending numeric order,
\* then the other string keys in insertion order
ObjectEntries(entries) ==
    LET IsIndex(e) == e.key \in DOMAIN IntegerKeys
        IsName(e) == e.key \notin DOMAIN IntegerKeys
        indexed == SelectSeq(entries, IsIndex)
        Rank(e) == Cardinality({i \in 1..Len(indexed) :
                                  IntegerKeys[indexed[i].key] <= IntegerKeys[e.key]})
        ascending == [r \in 1..Len(indexed) |->
                        CHOOSE e \in {indexed[i] : i \in 1..Len(indexed)} : Rank(e) = r]
    IN  ascending \o SelectSeq(entries, IsName)

(***************************************************************************)
(* Array.prototype.sort as analyzeMetrics uses it (analytics.ts 105-108):  *)
(* a stable sort, ascending by value and descending by timestamp.          *)
(***************************************************************************)
InsertAscending(sorted, v) ==
    LET k == Cardinality({i \in 1..Len(sorted) : sorted[i] <= v})
    IN  SubSeq(sorted, 1, k) \o <<v>> \o SubSeq(sorted, k + 1, Len(sorted))

\* the values as they arrive, not sorted
Unsorted(s) == s

RECURSIVE SortAscending(_)
SortAscending(s) ==
    IF s = <<>> THEN <<>>
    ELSE InsertAscending(SortAscending(SubSeq(s, 1, Len(s) - 1)), s[Len(s)])

\* the comparator with a and b exchanged: oldest first
InsertOldestFirst(sorted, m) ==
    LET k == Cardinality({i \in 1..Len(sorted) : sorted[i].timestamp <= m.timestamp})
    IN  SubSeq(sorted, 1, k) \o <<m>> \o SubSeq(sorted, k + 1, Len(sorted))

InsertNewestFirst(sorted, m) ==
    LET k == Cardinality({i \in 1..Len(sorted) : sorted[i].timestamp >= m.timestamp})
    IN  SubSeq(sorted, 1, k) \o <<m>> \o SubSeq(sorted, k + 1, Len(sorted))

RECURSIVE SortNewestFirst(_)
SortNewestFirst(s) ==
    IF s = <<>> THEN <<>>
    ELSE InsertNewestFirst(SortNewestFirst(SubSeq(s, 1, Len(s) - 1)), s[Len(s)])

(***************************************************************************)
(* analyzeMetrics (analytics.ts 101-121).                                  *)
(***************************************************************************)
ValuesOf(metricList) == [i \in 1..Len(metricList) |-> metricList[i].value]

AnalyzeGroup(metricType, metricList) ==
    LET values == SortAscending(ValuesOf(metricList))
        sortedByTime == SortNewestFirst(metricList)
    IN  [metricType |-> metricType,
         current |-> sortedByTime[1].value,
         average |-> MathRound(Sum(values), Len(values)),
         min |-> values[1],
         max |-> values[Len(values)],
         trend |-> calculateTrend(values),
         projection7Days |-> projectNext7Days(values),
         unit |-> sortedByTime[1].unit]

\* the call ends in the TypeError of the reducer
analyzeMetricsThrows(metrics) == groupMetricsByType(metrics).threw

\* the array returned; none when the call throws
analyzeMetrics(metrics) ==
    LET grouped == groupMetricsByType(metrics)
        entries == ObjectEntries(grouped.entries)
    IN  IF grouped.threw THEN <<>>
        ELSE [g \in 1..Len(entries) |->
                AnalyzeGroup(entries[g].key, entries[g].list)]

(***************************************************************************)
(* getTrendData (analytics.ts 46-53), and what each Analytics Engine       *)
(* function does to the array it is handed.                                *)
(***************************************************************************)
\* the comparator of line 48: a stable sort, oldest first
InsertByTime(sorted, m) ==
    LET k == Cardinality({i \in 1..Len(sorted) : sorted[i].timestamp <= m.timestamp})
    IN  SubSeq(sorted, 1, k) \o <<m>> \o SubSeq(sorted, k + 1, Len(sorted))

RECURSIVE SortByTime(_)
SortByTime(s) ==
    IF s = <<>> THEN <<>>
    ELSE InsertByTime(SortByTime(SubSeq(s, 1, Len(s) - 1)), s[Len(s)])

\* new Date(m.timestamp).toLocaleDateString()
LocaleDateString(timestamp) == "date:" \o ToString(timestamp)

\* metrics.sort(...).map(...): the array returned
getTrendData(metrics) ==
    LET sorted == SortByTime(metrics)
    IN  [i \in 1..Len(sorted) |->
            [date |-> LocaleDateString(sorted[i].timestamp), value |-> sorted[i].value]]

\* what the call returns
Returned(fn, array) ==
    CASE fn = "groupMetricsByType" -> groupMetricsByType(array)
      [] fn = "getTrendData" -> getTrendData(array)
      [] fn = "calculateTrend" -> calculateTrend(array)
      [] fn = "projectNext7Days" -> projectNext7Days(array)
      [] fn = "analyzeMetrics" -> analyzeMetrics(array)

\* the array after the call: Array.prototype.sort sorts the array it is
\* called on (line 48); reduce, slice and map leave theirs alone, and the
\* sorts of analyzeMetrics are on arrays it made itself
ArrayAfter(fn, array) ==
    IF fn = "getTrendData" THEN SortByTime(array) ELSE array

(***************************************************************************)
(* Request parameters.  Null is what searchParams.get returns for a        *)
(* parameter the URL does not carry, the userId of a body without one,     *)
(* and a NULL column.                                                      *)
(***************************************************************************)
Null == "<null>"

\* p || d
OrDefault(p, d) == IF p = Null \/ p = "" THEN d ELSE p

\* String.prototype.trim and toLowerCase on the strings of the model
Trim(str) == IF str = " 90 " THEN "90" ELSE str
ToLowerCase(str) == IF str = "CSV" THEN "csv" ELSE str

(***************************************************************************)
(* validateDays, validateExportFormat (validation.ts 21-31, 122-132).      *)
(* No request handler calls them.                                          *)
(***************************************************************************)
validDays == {"7", "30", "90", "365"}

validateDays(days) ==
    LET daysStr == Trim(OrDefault(days, "30"))
    IN  IF daysStr \notin validDays THEN "30" ELSE daysStr

validFormats == {"csv", "markdown", "html", "text"}

validateExportFormat(format) ==
    LET fmt == Trim(ToLowerCase(OrDefault(format, "csv")))
    IN  IF fmt \notin validFormats THEN "csv" ELSE fmt

(***************************************************************************)
(* The store, as the handlers' statements use it.                          *)
(***************************************************************************)
\* the day NOW() falls on; timestamps are day numbers
Now == 400

\* the number a numeric parameter text denotes to the store
UserIdNumber == ("1" :> 1) @@ ("2" :> 2) @@ ("3" :> 3)
IntervalDays == ("7" :> 7) @@ ("30" :> 30) @@ ("45" :> 45) @@ ("90" :> 90) @@ ("365" :> 365)

\* SELECT name FROM users WHERE id = $1
SelectUser(userId) ==
    LET IsUser(u) == u.id = UserIdNumber[userId]
    IN  SelectSeq(users, IsUser)

RowLimit == 100

Take(s, n) == SubSeq(s, 1, Min(Len(s), n))

\* SELECT ... FROM health_metrics WHERE user_id = $1
\*   AND timestamp > NOW() - INTERVAL '<days> days' ORDER BY timestamp DESC
SelectMetrics(userId, days) ==
    LET InWindow(m) == /\ m.user_id = UserIdNumber[userId]
                       /\ m.timestamp > Now - IntervalDays[days]
    IN  SortNewestFirst(SelectSeq(health_metrics, InWindow))

\* the statement as sent: the table, $1 and the text put into INTERVAL '...'
Statement(table, userId, interval) ==
    [table |-> table, user |-> userId, interval |-> interval]

\* query (db.ts 7-18) throws what pool.query throws: a failure of the store
\* during the request, or the statement's own error (an INTERVAL text the
\* store cannot read)
QueryThrows(outcome, stmt) ==
    \/ outcome = "error"
    \/ stmt.interval # "" /\ stmt.interval \notin DOMAIN IntervalDays

\* await pool.query(text, params) (db.ts 10) waits for as long as the store
\* takes: with a store that never answers, it never settles
QueryHangs(outcome) == outcome = "hang"

(***************************************************************************)
(* Responses.  Every response is a record of the same fields.              *)
(***************************************************************************)
NoResponse ==
    [status |-> 0, contentType |-> "", error |-> "", rows |-> <<>>,
     content |-> <<>>, extension |-> "", shape |-> "none",
     insights |-> <<>>, recommendations |-> <<>>, anomalies |-> <<>>,
     object |-> <<>>]

\* NextResponse.json({ error }, { status })
JsonError(status, message) ==
    [NoResponse EXCEPT !.status = status, !.contentType = "application/json",
                       !.error = message, !.shape = "error"]

\* NextResponse.json(result.rows)
JsonRows(rows) ==
    [NoResponse EXCEPT !.status = 200, !.contentType = "application/json",
                       !.rows = rows, !.shape = "rows"]

\* NextResponse.json({ insights, recommendations, anomalies })
JsonInsights(insights, recommendations, anomalies) ==
    [NoResponse EXCEPT !.status = 200, !.contentType = "application/json",
                       !.insights = insights, !.recommendations = recommendations,
                       !.anomalies = anomalies, !.shape = "insights"]

\* NextResponse.json(JSON.parse(...)): whatever object the reply spelled out
JsonObject(members) ==
    [NoResponse EXCEPT !.status = 200, !.contentType = "application/json",
                       !.object = members, !.shape = "object"]

\* a handler that is still awaiting has sent nothing
Pending == NoResponse

\* what a handler did: its response, its statements, its calls of the API
Handled(resp, statements, calls) ==
    [response |-> resp, sqlLog |-> statements, openaiCalls |-> calls]

(***************************************************************************)
(* GET /api/metrics (metrics/route.ts 4-26).                               *)
(***************************************************************************)
metricsGET(userId, daysParam, db) ==
    LET days == OrDefault(daysParam, "30")
        stmt == Statement("health_metrics", userId, days)
    IN  IF userId = Null \/ userId = ""
        THEN Handled(JsonError(400, "userId is required"), <<>>, 0)
        ELSE IF QueryHangs(db[1])
        THEN Handled(Pending, <<stmt>>, 0)
        ELSE IF QueryThrows(db[1], stmt)
        THEN Handled(JsonError(500, "Failed to fetch metrics"), <<stmt>>, 0)
        ELSE Handled(JsonRows(SelectMetrics(userId, days)), <<stmt>>, 0)

(***************************************************************************)
(* GET /api/export (part_003 105-215).  A document is its lines; a line is *)
(* the fixed text of its template and the values put into it.              *)
(***************************************************************************)
Line(text, args) == [text |-> text, args |-> args]

\* new Date().toLocaleString(), new Date(m.timestamp).toLocaleString()
LocaleNow == "<now>"
LocaleString(timestamp) == "locale:" \o ToString(timestamp)

formatMetricValue(metric) ==
    IF metric.metric_type = "Blood Pressure" /\ metric.composite_data # <<>>
    THEN LET bp == metric.composite_data[1]
         IN  IF bp.pulse # 0
             THEN ToString(bp.systolic) \o "/" \o ToString(bp.diastolic)
                      \o " (" \o ToString(bp.pulse) \o " bpm)"
             ELSE ToString(bp.systolic) \o "/" \o ToString(bp.diastolic)
    ELSE ToString(metric.value)

Document(contentType, extension, lines) ==
    [NoResponse EXCEPT !.status = 200, !.contentType = contentType,
                       !.extension = extension, !.content = lines,
                       !.shape = "document"]

ExportDocument(format, userName, days, metrics) ==
    LET Each(RowLine(_)) == [i \in 1..Len(metrics) |-> RowLine(metrics[i])]
        CsvRow(m) == Line("csv row", <<m.metric_type, formatMetricValue(m),
                                       OrDefault(m.unit, ""), ToString(m.timestamp)>>)
        MarkdownRow(m) == Line("| row |", <<m.metric_type, formatMetricValue(m),
                                            OrDefault(m.unit, "-"), LocaleString(m.timestamp)>>)
        HtmlRow(m) == Line("<tr>", <<m.metric_type, formatMetricValue(m),
                                     OrDefault(m.unit, "-"), LocaleString(m.timestamp)>>)
        TextRow(m) == Line("text row", <<m.metric_type, formatMetricValue(m),
                                         OrDefault(m.unit, ""), LocaleString(m.timestamp)>>)
    IN  IF format = "csv"
        THEN Document("text/csv", ".csv",
                 <<Line("Metric Type,Value,Unit,Timestamp", <<>>)>> \o Each(CsvRow))
        ELSE IF format = "markdown"
        THEN Document("text/markdown", ".md",
                 <<Line("# Health Report for", <<userName>>),
                   Line("Generated:", <<LocaleNow>>),
                   Line("Period: Last days", <<days>>),
                   Line("## Metrics", <<>>),
                   Line("| Metric Type | Value | Unit | Timestamp |", <<>>),
                   Line("|---|---|---|---|", <<>>)>> \o Each(MarkdownRow))
        ELSE IF format = "html"
        THEN Document("text/html", ".html",
                 <<Line("<title>Health Report -", <<userName>>),
                   Line("<h1>Health Report for", <<userName>>),
                   Line("<p>Generated:", <<LocaleNow>>),
                   Line("<p>Period: Last days", <<days>>),
                   Line("<tr><th>Metric Type</th><th>Value</th><th>Unit</th><th>Timestamp</th></tr>", <<>>)>>
                 \o Each(HtmlRow))
        ELSE Document("text/plain", ".txt",
                 <<Line("HEALTH REPORT FOR", <<userName>>),
                   Line("Generated:", <<LocaleNow>>),
                   Line("Period: Last days", <<days>>)>> \o Each(TextRow))

exportGET(userId, formatParam, daysParam, db) ==
    LET format == OrDefault(formatParam, "csv")
        days == OrDefault(daysParam, "30")
        userStmt == Statement("users", userId, "")
        metricsStmt == Statement("health_metrics", userId, days)
        failed == JsonError(500, "Failed to export data")
    IN  IF userId = Null \/ userId = ""
        THEN Handled(JsonError(400, "userId is required"), <<>>, 0)
        ELSE IF QueryHangs(db[1])
        THEN Handled(Pending, <<userStmt>>, 0)
        ELSE IF QueryThrows(db[1], userStmt)
        THEN Handled(failed, <<userStmt>>, 0)
        ELSE IF QueryHangs(db[2])
        THEN Handled(Pending, <<userStmt, metricsStmt>>, 0)
        ELSE IF QueryThrows(db[2], metricsStmt)
        THEN Handled(failed, <<userStmt, metricsStmt>>, 0)
        ELSE IF Len(SelectUser(userId)) = 0
        THEN Handled(JsonError(404, "User not found"), <<userStmt, metricsStmt>>, 0)
        ELSE Handled(ExportDocument(format, SelectUser(userId)[1].name, days,
                                    SelectMetrics(userId, days)),
                     <<userStmt, metricsStmt>>, 0)

(***************************************************************************)
(* POST /api/ai-insights (ai-insights/route.ts 9-74).  The reply of the    *)
(* text-generation API is a sequence of tokens: an opening brace, a        *)
(* closing brace, "m" for the text of well-formed JSON members, "w" for    *)
(* any other text.                                                         *)
(***************************************************************************)
ReplyTokens == {"{", "}", "m", "w"}

CannedNoData ==
    <<"No health data available yet. Start tracking your health metrics to get personalized insights.">>

\* responseText.match(/\{[\s\S]*\}/): from the first opening brace to the
\* last closing brace after it; <<>> stands for null (no match)
JsonMatch(responseText) ==
    LET opens == {i \in 1..Len(responseText) : responseText[i] = "{"}
        closes == {i \in 1..Len(responseText) : responseText[i] = "}"}
    IN  IF opens = {} \/ closes = {} THEN <<>>
        ELSE LET first == CHOOSE i \in opens : \A j \in opens : i <= j
                 last == CHOOSE i \in closes : \A j \in closes : i >= j
             IN  IF first < last THEN SubSeq(responseText, first, last) ELSE <<>>

\* JSON.parse returns an object for {} and for { members }, and throws for
\* any other text
JsonParses(text) == text = <<"{", "}">> \/ text = <<"{", "m", "}">>
JsonParse(text) == SubSeq(text, 2, Len(text) - 1)

\* lines 37-69: the prompt, the call of the API, the parsing of its reply
ComposeInsights(ai, reply, statements) ==
    LET responseText == reply
        jsonMatch == JsonMatch(responseText)
    IN  IF ai = "hang"
        THEN Handled(Pending, statements, 1)
        ELSE IF ai = "error" \/ (jsonMatch # <<>> /\ ~JsonParses(jsonMatch))
        THEN Handled(JsonError(500, "Failed to generate insights"), statements, 1)
        ELSE IF jsonMatch # <<>>
        THEN Handled(JsonObject(JsonParse(jsonMatch)), statements, 1)
        ELSE Handled(JsonInsights(responseText, <<>>, <<>>), statements, 1)

\* lines 27-69 without the test of line 29
InsightsUnguarded(metrics, ai, reply, statements) ==
    ComposeInsights(ai, reply, statements)

\* lines 27-69: the canned answer when there are no rows, else the API
InsightsFor(metrics, ai, reply, statements) ==
    IF Len(metrics) = 0
    THEN Handled(JsonInsights(CannedNoData, <<>>, <<>>), statements, 0)
    ELSE ComposeInsights(ai, reply, statements)

insightsPOST(userId, db, ai, reply) ==
    LET stmt == Statement("health_metrics", userId, "30")
    IN  IF userId = Null \/ userId = ""
        THEN Handled(JsonError(400, "userId is required"), <<>>, 0)
        ELSE IF QueryHangs(db[1])
        THEN Handled(Pending, <<stmt>>, 0)
        ELSE IF QueryThrows(db[1], stmt)
        THEN Handled(JsonError(500, "Failed to generate insights"), <<stmt>>, 0)
        ELSE InsightsFor(Take(SelectMetrics(userId, "30"), RowLimit), ai, reply, <<stmt>>)

(***************************************************************************)
(* validateMetricType, validateMetricValue (validation.ts 36-91): TRUE     *)
(* when the function returns, FALSE when it throws.  Numbers are in        *)
(* hundredths.                                                             *)
(***************************************************************************)
Undefined == "<undefined>"

validMetrics ==
    {"Blood Pressure", "Weight", "Steps", "Heart Rate", "Sleep", "Water",
     "Exercise", "Mood"}

validateMetricType(metricType) ==
    LET type == Trim(IF metricType \in {Null, Undefined} THEN "" ELSE metricType)
    IN  type \in validMetrics

\* parseFloat on the value texts of the model; no entry stands for NaN
ParseFloat == ("5" :> 500) @@ ("11" :> 1100) @@ ("120" :> 12000)

constraints ==
    ("Blood Pressure" :> [min |-> 0, max |-> 30000])
    @@ ("Weight" :> [min |-> 5000, max |-> 50000])
    @@ ("Steps" :> [min |-> 0, max |-> 10000000])
    @@ ("Heart Rate" :> [min |-> 3000, max |-> 20000])
    @@ ("Sleep" :> [min |-> 0, max |-> 2400])
    @@ ("Water" :> [min |-> 0, max |-> 50000])
    @@ ("Exercise" :> [min |-> 0, max |-> 144000])
    @@ ("Mood" :> [min |-> 100, max |-> 1000])

validateMetricValue(value, metricType) ==
    /\ value \in DOMAIN ParseFloat
    /\ metricType \in DOMAIN constraints =>
          /\ ParseFloat[value] >= constraints[metricType].min
          /\ ParseFloat[value] <= constraints[metricType].max

(***************************************************************************)
(* POST /api/metrics (metrics/route.ts 28-63).                             *)
(***************************************************************************)
\* !p for the parameters of the model
Falsy(p) == p \in {Null, Undefined, ""}

\* the DECIMAL(10, 2) a value text denotes to the store, in hundredths
Numeric == ParseFloat

\* NextResponse.json(result.rows[0], { status: 201 })
JsonCreated(row) ==
    [NoResponse EXCEPT !.status = 201, !.contentType = "application/json",
                       !.rows = <<row>>, !.shape = "row"]

\* what the handler did, and the table after it
Written(resp, statements, table) ==
    [response |-> resp, sqlLog |-> statements, openaiCalls |-> 0,
     health_metrics |-> table]

\* the INSERT fails: the store fails, user_id is no integer or no user's id,
\* value is NULL or no number
InsertThrows(outcome, userId, isNumber) ==
    \/ outcome = "error"
    \/ userId \notin DOMAIN UserIdNumber
    \/ SelectUser(userId) = <<>>
    \/ ~isNumber

\* the regular INSERT of lines 50-57, whatever the metric type
PlainRow(userId, metricType, value, unit, compositeData) ==
    [user_id |-> UserIdNumber[userId], metric_type |-> metricType,
     value |-> IF value \in DOMAIN Numeric THEN Numeric[value] ELSE 0,
     unit |-> OrDefault(unit, Null), composite_data |-> <<>>,
     timestamp |-> Now]

\* the row of the INSERT: lines 40-47 for Blood Pressure with a composite
\* payload, lines 50-57 otherwise
InsertedRow(userId, metricType, value, unit, compositeData) ==
    IF metricType = "Blood Pressure" /\ compositeData # <<>>
    THEN [user_id |-> UserIdNumber[userId], metric_type |-> metricType,
          value |-> compositeData[1].systolic * 100,
          unit |-> OrDefault(unit, "mmHg"), composite_data |-> compositeData,
          timestamp |-> Now]
    ELSE [user_id |-> UserIdNumber[userId], metric_type |-> metricType,
          value |-> Numeric[value],
          unit |-> OrDefault(unit, Null), composite_data |-> <<>>,
          timestamp |-> Now]

metricsPOST(userId, metricType, value, unit, compositeData, db) ==
    LET stmt == Statement("health_metrics", userId, "")
        composite == metricType = "Blood Pressure" /\ compositeData # <<>>
        isNumber == composite \/ value \in DOMAIN Numeric
        row == InsertedRow(userId, metricType, value, unit, compositeData)
    IN  IF Falsy(userId) \/ Falsy(metricType) \/ value = Undefined
        THEN Written(JsonError(400, "userId, metricType, and value are required"),
                     <<>>, health_metrics)
        ELSE IF QueryHangs(db[1])
        THEN Written(Pending, <<stmt>>, health_metrics)
        ELSE IF InsertThrows(db[1], userId, isNumber)
        THEN Written(JsonError(500, "Failed to create metric"), <<stmt>>,
                     health_metrics)
        ELSE Written(JsonCreated(row), <<stmt>>, Append(health_metrics, row))

(***************************************************************************)
(* GET and POST /api/init (init/route.ts 9-47) and initializeDatabase      *)
(* (db.ts 24-62).  The schema is the set of the tables and indexes made.   *)
(***************************************************************************)
SchemaObjects == <<"users", "health_metrics", "idx_health_metrics_user_id_timestamp">>
FullSchema == {SchemaObjects[i] : i \in 1..Len(SchemaObjects)}

\* the test that only looks for a header
HeaderMissing(authHeader, initSecret) ==
    ~Falsy(initSecret) /\ authHeader = Null

\* initSecret && authHeader !== `Bearer ${initSecret}`
Unauthorized(authHeader, initSecret) ==
    ~Falsy(initSecret) /\ authHeader # "Bearer " \o initSecret

\* CREATE TABLE / INDEX IF NOT EXISTS: nothing happens to what exists
CreateIfNotExists(objects, name) == objects \cup {name}

\* NextResponse.json({ success: true, message, timestamp })
JsonSuccess ==
    [NoResponse EXCEPT !.status = 200, !.contentType = "application/json",
                       !.shape = "success"]

RECURSIVE RunStatements(_, _, _)
\* the statements of initializeDatabase from the i-th on: each awaited in
\* turn, the first that fails or never answers ends the run
RunStatements(i, db, done) ==
    IF i > Len(SchemaObjects) THEN [done EXCEPT !.outcome = "ok"]
    ELSE LET sent == [done EXCEPT !.sqlLog = Append(@, Statement(SchemaObjects[i], Null, ""))]
         IN  IF QueryHangs(db[i]) THEN [sent EXCEPT !.outcome = "hang"]
             ELSE IF QueryThrows(db[i], Statement(SchemaObjects[i], Null, ""))
             THEN [sent EXCEPT !.outcome = "error"]
             ELSE RunStatements(i + 1, db,
                      [sent EXCEPT !.schema = CreateIfNotExists(@, SchemaObjects[i])])

initializeDatabase(objects, db) ==
    RunStatements(1, db, [schema |-> objects, sqlLog |-> <<>>, outcome |-> "ok"])

\* what the handler did, and the schema after it
Initialized(resp, statements, objects) ==
    [response |-> resp, sqlLog |-> statements, schema |-> objects]

initGET(authHeader, initSecret, db) ==
    IF Unauthorized(authHeader, initSecret)
    THEN Initialized(JsonError(401, "Unauthorized"), <<>>, schema)
    ELSE LET run == initializeDatabase(schema, db)
         IN  Initialized(CASE run.outcome = "ok" -> JsonSuccess
                           [] run.outcome = "hang" -> Pending
                           [] run.outcome = "error" ->
                                JsonError(500, "Failed to initialize database"),
                         run.sqlLog, run.schema)

\* POST is GET(request)
initPOST(authHeader, initSecret, db) == initGET(authHeader, initSecret, db)

(***************************************************************************)
(* query (db-serverless.ts 34-95) and retryWithTimeout (timeout.ts         *)
(* 98-133).  An error is its code, the words of interest its message       *)
(* contains, and what kind of failure it is.                               *)
(***************************************************************************)
NoError == [code |-> "", words |-> {}, kind |-> "none"]

\* a timer whose rejection does not carry the word the catch block looks for
UnnamedTimerError == [code |-> "", words |-> {}, kind |-> "timeout"]

\* the rejection of the timer: `Query timeout after ${DB_TIMEOUT}ms`
\* (db-serverless.ts 43), `${label} timeout after ${ms}ms` (timeout.ts 20)
TimeoutError == [code |-> "", words |-> {"timeout"}, kind |-> "timeout"]

\* the errors an attempt itself may reject with
OperationErrors ==
    {\* connect ECONNREFUSED 127.0.0.1:5432
     [code |-> "ECONNREFUSED", words |-> {"ECONNREFUSED"}, kind |-> "connection"],
     \* connect ETIMEDOUT
     [code |-> "ETIMEDOUT", words |-> {"ETIMEDOUT"}, kind |-> "connection"],
     \* timeout exceeded when trying to connect
     [code |-> "", words |-> {"timeout"}, kind |-> "connection"],
     \* Connection terminated due to connection timeout
     [code |-> "", words |-> {"connection", "timeout"}, kind |-> "connection"],
     \* duplicate key value violates unique constraint "users_name_key"
     [code |-> "23505", words |-> {}, kind |-> "constraint"],
     \* invalid input syntax for type integer: "timeout"
     [code |-> "22P02", words |-> {"timeout"}, kind |-> "validation"]}

\* error.message?.includes(word)
Includes(error, word) == word \in error.words

\* db-serverless.ts 65-69
QueryIsRetryable(error) ==
    \/ error.code = "ECONNREFUSED"
    \/ error.code = "ETIMEDOUT"
    \/ Includes(error, "timeout")
    \/ Includes(error, "connection")

\* timeout.ts 113-116
RetryIsRetryable(error) ==
    \/ Includes(error, "timeout")
    \/ Includes(error, "ECONNREFUSED")
    \/ Includes(error, "ETIMEDOUT")

isRetryable(fn, error) ==
    IF fn = "query" THEN QueryIsRetryable(error) ELSE RetryIsRetryable(error)

\* a backoff that grows by the base at each attempt
LinearBackoff(base, attempt) == base * attempt

\* Math.pow(2, attempt - 1) * 100 (db-serverless.ts 73),
\* backoffMs * Math.pow(2, attempt - 1) (timeout.ts 123)
Backoff(base, attempt) == base * 2 ^ (attempt - 1)

\* throw lastError || new Error(...) after the loop (db-serverless.ts 94,
\* timeout.ts 132)
AllRetriesFailed == [code |-> "", words |-> {}, kind |-> "exhausted"]

\* the call before its first step
RetryCall(fn, maxRetries, backoffMs) ==
    [fn |-> fn, maxRetries |-> maxRetries, backoffMs |-> backoffMs,
     pc |-> "loop", attempt |-> 1, attempts |-> 0, delays |-> <<>>,
     operation |-> "none", operationError |-> NoError,
     lastError |-> NoError, lastBy |-> "none",
     outcome |-> "none", thrown |-> NoError,
     limitNaN |-> FALSE, effects |-> 0, running |-> 0]

\* parseInt(process.env.DATABASE_MAX_RETRIES || '3') (db-serverless.ts 17):
\* the number the text spells, NaN for a text that spells none
LimitTexts == {ToString(m) : m \in -1..MaxRetriesBound}
QueryCall(env) ==
    LET text == OrDefault(env, "3")
    IN  IF text \in LimitTexts
        THEN RetryCall("query", CHOOSE m \in -1..MaxRetriesBound : ToString(m) = text, 100)
        ELSE [RetryCall("query", 0, 100) EXCEPT !.limitNaN = TRUE]

\* attempt <= MAX_RETRIES, which is false for every attempt when the limit
\* is NaN
WithinLimit(call) == ~call.limitNaN /\ call.attempt <= call.maxRetries

IdleRetry == retry = RetryCall("none", 0, 0)

\* the catch block: sleep and continue, or rethrow
Catch(call, error, by) ==
    LET caught == [call EXCEPT !.lastError = error, !.lastBy = by]
    IN  IF isRetryable(call.fn, error) /\ call.attempt < call.maxRetries
        THEN [caught EXCEPT !.pc = "sleeping",
                            !.delays = Append(@, Backoff(call.backoffMs, call.attempt))]
        ELSE [caught EXCEPT !.pc = "done", !.outcome = "thrown", !.thrown = error]

\* no array handed over, no component mounted, no provider mounted
NoCall == [fn |-> "none", before |-> <<>>, array |-> <<>>, calls |-> 0,
           result |-> <<>>, again |-> <<>>]
NoData == [request |-> 0, userId |-> 0]
NoPage == [component |-> "none", userId |-> 0, refreshTrigger |-> 0,
           loading |-> TRUE, error |-> "", data |-> NoData, analysis |-> NoData,
           inflight |-> {}, issued |-> 0, failed |-> {}]
NoUser == [id |-> 0, name |-> "", created_at |-> ""]
NoAuth == [phase |-> "none", user |-> NoUser, loading |-> TRUE,
           currentUser |-> Null, last |-> [call |-> "none", user |-> NoUser],
           calls |-> 0, reloads |-> 0]

IdleClient ==
    /\ arg = NoCall
    /\ schema = {}
    /\ page = NoPage
    /\ auth = NoAuth

(***************************************************************************)
(* Dashboard (part_001 12-54) and AIInsights (AIInsights.tsx 16-63): the   *)
(* state of the component, and its fetches in flight.  The data of a       *)
(* response is named by the request it answers.                            *)
(***************************************************************************)
\* useState initial values, with the props of the first render
Mounted(component, userId) ==
    [NoPage EXCEPT !.component = component, !.userId = userId]

\* fetchMetrics / fetchInsights up to the await of fetch: setLoading(true),
\* and a request for the userId of this render goes out
StartFetch(p) ==
    [p EXCEPT !.loading = TRUE, !.issued = @ + 1,
              !.inflight = @ \cup {[id |-> p.issued + 1, userId |-> p.userId]}]

\* the body of the try block after a response with response.ok
SetData(p, req) ==
    LET data == [request |-> req.id, userId |-> req.userId]
    IN  [p EXCEPT !.data = data,
                  !.analysis = IF p.component = "Dashboard" THEN data ELSE @]

\* throw new Error('Failed to fetch ...') and the catch block
FetchError(component) ==
    IF component = "Dashboard" THEN "Failed to fetch metrics"
    ELSE "Failed to fetch insights"

\* the rest of fetchMetrics / fetchInsights once the fetch of req settles
SettleFetch(p, req, ok) ==
    LET settled == [p EXCEPT !.inflight = @ \ {req}]
        done == IF ok THEN SetData(settled, req)
                ELSE [settled EXCEPT !.error = FetchError(p.component),
                                     !.failed = @ \cup {req.id}]
    IN  [done EXCEPT !.loading = FALSE]

\* what the component renders (part_001 37-62, AIInsights.tsx 44-70)
Renders(p) ==
    IF p.loading THEN "spinner"
    ELSE IF p.error # "" THEN "error"
    ELSE IF p.data = NoData THEN "empty"
    ELSE "data"

(***************************************************************************)
(* AuthProvider (auth-context.tsx 23-57): the user in memory and the text  *)
(* under the localStorage key 'currentUser' (Null when the key is absent). *)
(* last records the latest call of login or logout.                        *)
(***************************************************************************)
\* the users the selection page offers, as /api/users returned them
KnownUsers ==
    {[id |-> 1, name |-> "Ann", created_at |-> "2025-01-01T00:00:00.000Z"],
     [id |-> 2, name |-> "Bob", created_at |-> "2025-01-02T00:00:00.000Z"],
     [id |-> 12, name |-> "Ann", created_at |-> "2025-01-02T00:00:00.000Z"]}

\* JSON.stringify of a User: the keys in insertion order, the number bare,
\* the strings quoted
JSONstringify(u) ==
    "{\"id\":" \o ToString(u.id) \o ",\"name\":\"" \o u.name
        \o "\",\"created_at\":\"" \o u.created_at \o "\"}"

\* JSON.parse of a text JSON.stringify wrote: the User it is the text of
JSONparse(text) == CHOOSE u \in KnownUsers : JSONstringify(u) = text

\* the first render: useState initial values
FirstRender(a) == [a EXCEPT !.phase = "rendered", !.user = NoUser, !.loading = TRUE]

\* the mount effect up to the call of refreshUsers
LoadSavedUser(a) ==
    LET savedUser == a.currentUser
    IN  [a EXCEPT !.phase = "loaded",
                  !.user = IF Falsy(savedUser) THEN @ ELSE JSONparse(savedUser)]

\* a logout that forgets the user in memory only
logoutInMemory(a) ==
    [a EXCEPT !.user = NoUser, !.last = [call |-> "logout", user |-> NoUser],
              !.calls = @ + 1]

login(a, selectedUser) ==
    [a EXCEPT !.user = selectedUser, !.currentUser = JSONstringify(selectedUser),
              !.last = [call |-> "login", user |-> selectedUser],
              !.calls = @ + 1]

logout(a) ==
    [a EXCEPT !.user = NoUser, !.currentUser = Null,
              !.last = [call |-> "logout", user |-> NoUser],
              !.calls = @ + 1]

\* no request yet
NoRequest ==
    [handler |-> "none", userId |-> Null, days |-> Null, format |-> Null,
     db |-> <<>>, ai |-> "ok", reply |-> <<>>,
     metricType |-> Null, value |-> Null, unit |-> Null, compositeData |-> <<>>,
     method |-> "GET", authorization |-> Null, initSecret |-> Null]

IdleApi ==
    /\ users = <<>>
    /\ health_metrics = <<>>
    /\ request = NoRequest
    /\ response = NoResponse
    /\ sqlLog = <<>>
    /\ openaiCalls = 0

(***************************************************************************)
(* Inputs.                                                                 *)
(***************************************************************************)
SeqsUpTo(S, n) == UNION {[1..k -> S] : k \in 0..n}

\* values in hundredths: 0, 1.00, 1.04, 1.05, 2.00
SeriesValues == {0, 100, 104, 105, 200}

\* Weight rows of the spec's scenario (176, 178, 180 on days 1..3) and Sleep
\* rows (0 and 7.05 hours)
WeightRows == [metric_type : {"Weight"}, value : {17600, 17800, 18000},
               unit : {"lbs", "kg"}, timestamp : {1, 2, 3}]
SleepRows == [metric_type : {"Sleep"}, value : {0, 705},
              unit : {"hours"}, timestamp : {1}]
             \cup [metric_type : {"Sleep"}, value : {0},
                   unit : {"hours"}, timestamp : {2}]
\* rows whose type is an array index, or a name every object inherits
OddRows == [metric_type : {"7", "constructor"}, value : {100},
            unit : {"units"}, timestamp : {2}]
Rows == WeightRows \cup SleepRows \cup OddRows

(***************************************************************************)
(* SpecSeries: calculateTrend and projectNext7Days applied to a series.    *)
(***************************************************************************)
IdleSeries ==
    /\ series = <<>>
    /\ trend = "none"
    /\ projection = <<>>
    /\ projected = FALSE

IdleAnalytics ==
    /\ batch = <<>>
    /\ analysis = <<>>
    /\ analyzed = FALSE
    /\ analysisError = FALSE

InitSeries ==
    /\ series \in SeqsUpTo(SeriesValues, MaxLen)
    /\ trend = "none"
    /\ projection = <<>>
    /\ projected = FALSE
    /\ IdleAnalytics
    /\ IdleApi
    /\ IdleRetry
    /\ IdleClient

CallCalculateTrend ==
    /\ trend = "none"
    /\ trend' = calculateTrend(series)
    /\ UNCHANGED <<series, projection, projected, batch, analysis, analyzed, analysisError>>
    /\ UNCHANGED apiVars
    /\ UNCHANGED retryVars
    /\ UNCHANGED clientVars

CallProjectNext7Days ==
    /\ ~projected
    /\ projection' = projectNext7Days(series)
    /\ projected' = TRUE
    /\ UNCHANGED <<series, trend, batch, analysis, analyzed, analysisError>>
    /\ UNCHANGED apiVars
    /\ UNCHANGED retryVars
    /\ UNCHANGED clientVars

NextSeries == CallCalculateTrend \/ CallProjectNext7Days

SpecSeries == InitSeries /\ [][NextSeries]_vars

(***************************************************************************)
(* SpecAnalytics: analyzeMetrics applied to a batch of rows.               *)
(***************************************************************************)
InitAnalytics ==
    /\ batch \in SeqsUpTo(Rows, MaxBatch)
    /\ analysis = <<>>
    /\ analyzed = FALSE
    /\ analysisError = FALSE
    /\ IdleSeries
    /\ IdleApi
    /\ IdleRetry
    /\ IdleClient

CallAnalyzeMetrics ==
    /\ ~analyzed
    /\ analysis' = analyzeMetrics(batch)
    /\ analyzed' = TRUE
    /\ analysisError' = analyzeMetricsThrows(batch)
    /\ UNCHANGED <<batch, series, trend, projection, projected>>
    /\ UNCHANGED apiVars
    /\ UNCHANGED retryVars
    /\ UNCHANGED clientVars

NextAnalytics == CallAnalyzeMetrics

SpecAnalytics == InitAnalytics /\ [][NextAnalytics]_vars

(***************************************************************************)
(* SpecProjection: projectNext7Days on series longer than the fitted       *)
(* window, and through analyzeMetrics.                                     *)
(***************************************************************************)
\* windows of FitWindow values: a line from 1.00 with a daily step, and one
\* day off the line
Windows ==
    {[i \in 1..FitWindow |-> 100 + step * (i - 1) + (IF i = day THEN off ELSE 0)] :
        step \in {-2, 0, 3}, day \in 1..FitWindow, off \in {0, 7}}

\* series of more than FitWindow values: older values, then a window
LongSeries ==
    {older \o window : older \in SeqsUpTo({0, 200}, MaxPrefix), window \in Windows}

InitProjection ==
    /\ \/ /\ series \in LongSeries \cup SeqsUpTo(SeriesValues, MaxLen)
          /\ batch \in SeqsUpTo(SleepRows, 1)
       \/ /\ series = <<>>
          /\ batch \in SeqsUpTo(Rows, MaxBatch - 1)
    /\ trend = "none"
    /\ projection = <<>>
    /\ projected = FALSE
    /\ analysis = <<>>
    /\ analyzed = FALSE
    /\ analysisError = FALSE
    /\ IdleApi
    /\ IdleRetry
    /\ IdleClient

NextProjection == CallProjectNext7Days \/ CallAnalyzeMetrics

SpecProjection == InitProjection /\ [][NextProjection]_vars

(***************************************************************************)
(* SpecFrame: an Analytics Engine function called twice on one array.      *)
(***************************************************************************)
OnNumbers == {"calculateTrend", "projectNext7Days"}
OnRows == {"groupMetricsByType", "getTrendData", "analyzeMetrics"}

HandedOver(fn, array) ==
    [NoCall EXCEPT !.fn = fn, !.before = array, !.array = array]

InitFrame ==
    /\ arg \in {HandedOver(fn, a) : fn \in OnNumbers, a \in SeqsUpTo(SeriesValues, MaxLen)}
          \cup {HandedOver(fn, a) : fn \in OnRows, a \in SeqsUpTo(Rows, MaxBatch - 1)}
    /\ schema = {}
    /\ page = NoPage
    /\ auth = NoAuth
    /\ IdleSeries
    /\ IdleAnalytics
    /\ IdleApi
    /\ IdleRetry

FrameStep(next) ==
    /\ arg' = next
    /\ UNCHANGED <<schema, page, auth>>
    /\ UNCHANGED analyticsVars
    /\ UNCHANGED apiVars
    /\ UNCHANGED retryVars

CallFirst ==
    /\ arg.fn # "none"
    /\ arg.calls = 0
    /\ FrameStep([arg EXCEPT !.calls = 1,
                             !.result = Returned(arg.fn, arg.array),
                             !.array = ArrayAfter(arg.fn, arg.array)])

CallAgain ==
    /\ arg.calls = 1
    /\ FrameStep([arg EXCEPT !.calls = 2,
                             !.again = Returned(arg.fn, arg.array),
                             !.array = ArrayAfter(arg.fn, arg.array)])

NextFrame == CallFirst \/ CallAgain

SpecFrame == InitFrame /\ [][NextFrame]_vars

(***************************************************************************)
(* SpecPage: a mounted Dashboard or AIInsights whose props change while    *)
(* its fetches are answered in any order.                                  *)
(***************************************************************************)
PageUserIds == {1, 2}

InitPage ==
    /\ page \in {StartFetch(Mounted(component, userId)) :
                    component \in {"Dashboard", "AIInsights"}, userId \in PageUserIds}
    /\ arg = NoCall
    /\ schema = {}
    /\ auth = NoAuth
    /\ IdleSeries
    /\ IdleAnalytics
    /\ IdleApi
    /\ IdleRetry

PageStep(next) ==
    /\ page' = next
    /\ UNCHANGED <<arg, schema, auth>>
    /\ UNCHANGED analyticsVars
    /\ UNCHANGED apiVars
    /\ UNCHANGED retryVars

\* the parent renders the component with another userId: the effect runs
ChangeUser ==
    /\ page.issued < MaxFetches
    /\ \E userId \in PageUserIds \ {page.userId} :
          PageStep(StartFetch([page EXCEPT !.userId = userId]))

\* handleDataSaved: setRefreshTrigger(prev + 1), and the effect runs
Refresh ==
    /\ page.issued < MaxFetches
    /\ PageStep(StartFetch([page EXCEPT !.refreshTrigger = @ + 1]))

\* a fetch in flight settles: a response that is ok, or one that is not
Respond ==
    \E req \in page.inflight, ok \in BOOLEAN :
        PageStep(SettleFetch(page, req, ok))

NextPage == ChangeUser \/ Refresh \/ Respond

SpecPage == InitPage /\ [][NextPage]_vars

(***************************************************************************)
(* SpecAuth: AuthProvider through logins, logouts and reloads of the page. *)
(***************************************************************************)
InitAuth ==
    /\ \E text \in {Null} \cup {JSONstringify(u) : u \in KnownUsers} :
          auth = FirstRender([NoAuth EXCEPT !.currentUser = text])
    /\ arg = NoCall
    /\ schema = {}
    /\ page = NoPage
    /\ IdleSeries
    /\ IdleAnalytics
    /\ IdleApi
    /\ IdleRetry

AuthStep(next) ==
    /\ auth' = next
    /\ UNCHANGED <<arg, schema, page>>
    /\ UNCHANGED analyticsVars
    /\ UNCHANGED apiVars
    /\ UNCHANGED retryVars

\* the mount effect
InitialLoad ==
    /\ auth.phase = "rendered"
    /\ AuthStep(LoadSavedUser(auth))

\* refreshUsers settles, with the list or with an error
UsersSettle ==
    /\ auth.phase = "loaded"
    /\ auth.loading
    /\ AuthStep([auth EXCEPT !.loading = FALSE])

\* handleSelectUser on the selection page
Login ==
    /\ auth.phase = "loaded"
    /\ auth.calls + auth.reloads < MaxCalls
    /\ \E selectedUser \in KnownUsers : AuthStep(login(auth, selectedUser))

\* handleLogout on the dashboard page, shown only with a user
Logout ==
    /\ auth.phase = "loaded"
    /\ auth.calls + auth.reloads < MaxCalls
    /\ auth.user # NoUser
    /\ AuthStep(logout(auth))

\* the browser reloads the page: the provider is constructed anew
Reload ==
    /\ auth.phase = "loaded"
    /\ auth.calls + auth.reloads < MaxCalls
    /\ AuthStep(FirstRender([auth EXCEPT !.reloads = @ + 1]))

NextAuth == InitialLoad \/ UsersSettle \/ Login \/ Logout \/ Reload

SpecAuth == InitAuth /\ [][NextAuth]_vars

(***************************************************************************)
(* SpecApi: the request handlers over a store.                             *)
(***************************************************************************)
UserIds == {Null, "1", "2", "3"}
DaysParams == {Null, "7", "30", "90", "365", "45", "abc"}
FormatParams == {Null, "csv", "markdown", "html", "text", "pdf", "CSV"}
\* a dependency answers, fails, or never answers
Outcomes == {"ok", "error", "hang"}

InitialUsers == <<[id |-> 1, name |-> "ann"], [id |-> 2, name |-> "bob"]>>

\* rows a store may hold: of user 1 with and without unit, of user 2, and
\* a Blood Pressure row of user 1 as POST writes it (value = systolic)
StoredRows ==
    [user_id : {1}, metric_type : {"Blood Pressure"}, value : {12000},
     unit : {"mmHg"},
     composite_data : {<<[systolic |-> 120, diastolic |-> 80, pulse |-> 0]>>},
     timestamp : {Now - 2}]
    \cup
    [user_id : {1}, metric_type : {"Weight"}, value : {17600},
     unit : {"lbs", Null}, composite_data : {<<>>},
     timestamp : {Now - 1, Now - 40, Now - 100}]
    \cup
    [user_id : {2}, metric_type : {"Weight"}, value : {17600},
     unit : {"lbs"}, composite_data : {<<>>},
     timestamp : {Now - 1, Now - 40, Now - 100}]

\* the timestamps of a table are distinct
Stores ==
    {t \in SeqsUpTo(StoredRows, MaxStored) :
        \A i, j \in 1..Len(t) : i # j => t[i].timestamp # t[j].timestamp}

InitApi ==
    /\ users = InitialUsers
    /\ health_metrics \in Stores
    /\ request = NoRequest
    /\ response = NoResponse
    /\ sqlLog = <<>>
    /\ openaiCalls = 0
    /\ IdleSeries
    /\ IdleAnalytics
    /\ IdleRetry
    /\ IdleClient

\* a handler answers the request it was invoked for
Answer(req, handled) ==
    /\ request' = req
    /\ response' = handled.response
    /\ sqlLog' = handled.sqlLog
    /\ openaiCalls' = handled.openaiCalls
    /\ UNCHANGED <<users, health_metrics>>
    /\ UNCHANGED analyticsVars
    /\ UNCHANGED retryVars
    /\ UNCHANGED clientVars

ReadMetrics ==
    /\ request.handler = "none"
    /\ \E userId \in UserIds, days \in DaysParams, db \in [1..1 -> Outcomes] :
        Answer([NoRequest EXCEPT !.handler = "metrics", !.userId = userId,
                                 !.days = days, !.db = db],
               metricsGET(userId, days, db))

Export ==
    /\ request.handler = "none"
    /\ \E userId \in UserIds, format \in FormatParams, days \in DaysParams,
          db \in [1..2 -> Outcomes] :
        Answer([NoRequest EXCEPT !.handler = "export", !.userId = userId,
                                 !.format = format, !.days = days, !.db = db],
               exportGET(userId, format, days, db))

GenerateInsights ==
    /\ request.handler = "none"
    /\ \E userId \in UserIds, db \in [1..1 -> Outcomes], ai \in Outcomes,
          reply \in SeqsUpTo(ReplyTokens, MaxReply) :
        /\ ai # "ok" => reply = <<>>
        /\ Answer([NoRequest EXCEPT !.handler = "insights", !.userId = userId,
                                    !.db = db, !.ai = ai, !.reply = reply],
                  insightsPOST(userId, db, ai, reply))

\* the response is sent: a handler keeps nothing of a request it answered;
\* a handler that is still awaiting sends nothing
Deliver ==
    /\ request.handler # "none"
    /\ response # Pending
    /\ request' = NoRequest
    /\ response' = NoResponse
    /\ sqlLog' = <<>>
    /\ openaiCalls' = 0
    /\ UNCHANGED <<users, health_metrics>>
    /\ UNCHANGED analyticsVars
    /\ UNCHANGED retryVars
    /\ UNCHANGED clientVars

NextApi == ReadMetrics \/ Export \/ GenerateInsights \/ Deliver

SpecApi == InitApi /\ [][NextApi]_vars

(***************************************************************************)
(* SpecWrite: POST /api/metrics over a store.                              *)
(***************************************************************************)
WriteUserIds == {Null, "1", "3", "abc"}
MetricTypes == {Null, "Weight", "Mood", "Blood Pressure", "Water Intake"}
Values == {Undefined, Null, "5", "11", "120", "abc"}
Units == {Null, "lbs"}
CompositePayloads == {<<>>, <<[systolic |-> 120, diastolic |-> 80, pulse |-> 0]>>}

\* NOW() of a statement is later than every stored timestamp: the clock of
\* the model stands at Now, so one row is written at it
WriteMetric ==
    /\ request.handler = "none"
    /\ \A i \in 1..Len(health_metrics) : health_metrics[i].timestamp < Now
    /\ \E userId \in WriteUserIds, metricType \in MetricTypes, value \in Values,
          unit \in Units, compositeData \in CompositePayloads,
          db \in [1..1 -> Outcomes] :
        LET written == metricsPOST(userId, metricType, value, unit,
                                   compositeData, db)
        IN  /\ request' = [NoRequest EXCEPT !.handler = "write",
                              !.userId = userId, !.metricType = metricType,
                              !.value = value, !.unit = unit,
                              !.compositeData = compositeData, !.db = db]
            /\ response' = written.response
            /\ sqlLog' = written.sqlLog
            /\ openaiCalls' = written.openaiCalls
            /\ health_metrics' = written.health_metrics
            /\ UNCHANGED users
            /\ UNCHANGED analyticsVars
            /\ UNCHANGED retryVars
            /\ UNCHANGED clientVars
    /\ UNCHANGED clientVars

NextWrite == WriteMetric \/ Deliver

SpecWrite == InitApi /\ [][NextWrite]_vars

(***************************************************************************)
(* SpecInit: /api/init over a fresh or an initialized store.               *)
(***************************************************************************)
Secrets == {Null, "s3cret"}
AuthHeaders == {Null, "Bearer s3cret", "Bearer other", "s3cret", "bearer s3cret"}

InitInit ==
    /\ \/ /\ schema = {}
          /\ users = <<>>
          /\ health_metrics = <<>>
       \/ /\ schema = FullSchema
          /\ users = InitialUsers
          /\ health_metrics \in Stores
    /\ request = NoRequest
    /\ response = NoResponse
    /\ sqlLog = <<>>
    /\ openaiCalls = 0
    /\ arg = NoCall
    /\ page = NoPage
    /\ auth = NoAuth
    /\ IdleSeries
    /\ IdleAnalytics
    /\ IdleRetry

Initialize ==
    /\ request.handler = "none"
    /\ \E method \in {"GET", "POST"}, authHeader \in AuthHeaders,
          initSecret \in Secrets, db \in [1..Len(SchemaObjects) -> Outcomes] :
        LET done == IF method = "GET" THEN initGET(authHeader, initSecret, db)
                    ELSE initPOST(authHeader, initSecret, db)
        IN  /\ request' = [NoRequest EXCEPT !.handler = "init", !.method = method,
                              !.authorization = authHeader,
                              !.initSecret = initSecret, !.db = db]
            /\ response' = done.response
            /\ sqlLog' = done.sqlLog
            /\ schema' = done.schema
            /\ UNCHANGED <<users, health_metrics, openaiCalls>>
            /\ UNCHANGED <<arg, page, auth>>
            /\ UNCHANGED analyticsVars
            /\ UNCHANGED retryVars

NextInit == Initialize \/ Deliver

SpecInit == InitInit /\ [][NextInit]_vars

(***************************************************************************)
(* SpecRetry: one call of query (db-serverless) or of retryWithTimeout.    *)
(***************************************************************************)
InitRetry ==
    /\ retry \in {QueryCall(env) : env \in LimitTexts \cup {Null, "abc"}}
           \cup {RetryCall("retryWithTimeout", m, b) :
                    m \in -1..MaxRetriesBound, b \in {100, 250}}
    /\ IdleSeries
    /\ IdleAnalytics
    /\ IdleApi
    /\ IdleClient

RetryStep(next) ==
    /\ retry' = next
    /\ UNCHANGED analyticsVars
    /\ UNCHANGED apiVars
    /\ UNCHANGED clientVars

\* attempt <= maxRetries: the operation is started and raced with a timer
StartAttempt ==
    /\ retry.pc = "loop"
    /\ WithinLimit(retry)
    /\ RetryStep([retry EXCEPT !.pc = "racing", !.attempts = @ + 1,
                               !.operation = "pending", !.operationError = NoError])

\* the loop ends without a return or a throw from inside it
LoopExhausted ==
    /\ retry.pc = "loop"
    /\ ~WithinLimit(retry)
    /\ RetryStep([retry EXCEPT !.pc = "done", !.outcome = "thrown",
                     !.thrown = IF retry.lastError = NoError
                                THEN AllRetriesFailed ELSE retry.lastError])

\* the operation resolves before the timer fires: the statement has taken
\* effect in the store
AttemptResolves ==
    /\ retry.pc = "racing"
    /\ RetryStep([retry EXCEPT !.pc = "done", !.outcome = "returned",
                               !.operation = "resolved", !.lastBy = "operation",
                               !.effects = @ + 1])

\* the operation rejects before the timer fires
AttemptRejects ==
    /\ retry.pc = "racing"
    /\ \E error \in OperationErrors :
          RetryStep(Catch([retry EXCEPT !.operation = "rejected",
                                        !.operationError = error],
                          error, "operation"))

\* the timer fires while the operation is pending: Promise.race settles,
\* the operation is not cancelled and goes on in the store
TimerFires ==
    /\ retry.pc = "racing"
    /\ RetryStep(Catch([retry EXCEPT !.running = @ + 1], TimeoutError, "timer"))

\* an operation that lost its race settles in the store: the statement
\* takes effect, or fails there
AbandonedSettles ==
    /\ retry.running > 0
    /\ \E applied \in BOOLEAN :
          RetryStep([retry EXCEPT !.running = @ - 1,
                                  !.effects = IF applied THEN @ + 1 ELSE @])

\* the backoff delay has passed
Wake ==
    /\ retry.pc = "sleeping"
    /\ RetryStep([retry EXCEPT !.pc = "loop", !.attempt = @ + 1])

NextRetry ==
    \/ StartAttempt
    \/ LoopExhausted
    \/ AttemptResolves
    \/ AttemptRejects
    \/ TimerFires
    \/ AbandonedSettles
    \/ Wake

SpecRetry == InitRetry /\ [][NextRetry]_vars

(***************************************************************************)
(* Claims about calculateTrend (checked under SpecSeries).                 *)
(***************************************************************************)
StrictlyIncreasing(s) == \A i \in 1..(Len(s) - 1) : s[i] < s[i + 1]
StrictlyDecreasing(s) == \A i \in 1..(Len(s) - 1) : s[i] > s[i + 1]
IsConstant(s) == \A i \in 1..Len(s) : s[i] = s[1]

\* sums and lengths of the two halves of the series
HalfLen1 == Len(series) \div 2
HalfLen2 == Len(series) - HalfLen1
HalfSum1 == Sum(SubSeq(series, 1, HalfLen1))
HalfSum2 == Sum(SubSeq(series, HalfLen1 + 1, Len(series)))
\* |mean2 - mean1| < 0.05 * mean1, cleared of denominators
WithinFivePercent == 20 * Abs(HalfSum2 * HalfLen1 - HalfSum1 * HalfLen2) < HalfSum1 * HalfLen2
\* |mean2 - mean1| / mean1 > 0.05
ExceedsFivePercent ==
    /\ HalfSum1 > 0
    /\ 20 * Abs(HalfSum2 * HalfLen1 - HalfSum1 * HalfLen2) > HalfSum1 * HalfLen2

\* C1: calculateTrend returns stable for fewer than 2 values; otherwise it is
\* stable iff |mean(secondHalf) - mean(firstHalf)| < 0.05 * mean(firstHalf),
\* the first half being the first floor(n/2) values, else improving if the
\* change is negative, else declining; a strictly increasing series whose
\* relative change exceeds 5% is declining, a strictly decreasing one improving.
C1_TrendRule ==
    trend # "none" =>
        IF Len(series) < 2 THEN trend = "stable"
        ELSE
            /\ (trend = "stable") <=> WithinFivePercent
            /\ (trend = "improving") <=>
                   (~WithinFivePercent /\ HalfSum2 * HalfLen1 < HalfSum1 * HalfLen2)
            /\ (trend = "declining") <=>
                   (~WithinFivePercent /\ HalfSum2 * HalfLen1 >= HalfSum1 * HalfLen2)
            /\ (StrictlyIncreasing(series) /\ ExceedsFivePercent) => trend = "declining"
            /\ (StrictlyDecreasing(series) /\ ExceedsFivePercent) => trend = "improving"

\* a strictly decreasing series of 3 values or more was classified improving
C1_Witness ==
    /\ trend = "improving"
    /\ Len(series) >= 3
    /\ StrictlyDecreasing(series)
    /\ ExceedsFivePercent

\* C2: for every constant series of length >= 2, whatever the constant,
\* calculateTrend returns stable.
C2_ConstantIsStable ==
    (trend # "none" /\ Len(series) >= 2 /\ IsConstant(series)) => trend = "stable"

(***************************************************************************)
(* Claims about analyzeMetrics (checked under SpecAnalytics).              *)
(***************************************************************************)
\* the rows of the batch of one type, in arrival order
RowsOfType(t) ==
    LET OfType(m) == m.metric_type = t
    IN  SelectSeq(batch, OfType)

SeqMin(s) == CHOOSE v \in {s[i] : i \in 1..Len(s)} : \A j \in 1..Len(s) : v <= s[j]
SeqMax(s) == CHOOSE v \in {s[i] : i \in 1..Len(s)} : \A j \in 1..Len(s) : v >= s[j]

\* C3: the projection7Days reported for a group is the regression over the
\* group's values in arrival order, not over a re-sorted copy.
C3_ProjectionInArrivalOrder ==
    analyzed =>
        \A g \in 1..Len(analysis) :
            analysis[g].projection7Days
                = projectNext7Days(ValuesOf(RowsOfType(analysis[g].metricType)))

\* C4: no MetricAnalysis returned contains a non-finite projection value,
\* also for a group with a single value (zero regression denominator).
C4_ProjectionFinite ==
    analyzed =>
        \A g \in 1..Len(analysis) :
            \A i \in 1..Len(analysis[g].projection7Days) :
                analysis[g].projection7Days[i].kind = "finite"

\* C5: for every group, average is the arithmetic mean of the group's values
\* rounded to 2 decimals (the nearest hundredth), min and max are the smallest
\* and largest value, and min <= average <= max.
C5_AverageMinMax ==
    analyzed =>
        \A g \in 1..Len(analysis) :
            LET a == analysis[g]
                vs == ValuesOf(RowsOfType(a.metricType))
            IN  /\ Len(vs) > 0
                /\ 2 * Abs(Len(vs) * a.average - Sum(vs)) <= Len(vs)
                /\ a.min = SeqMin(vs)
                /\ a.max = SeqMax(vs)
                /\ a.min <= a.average
                /\ a.average <= a.max

\* a group of 3 values whose mean is not a whole number of hundredths
C5_Witness ==
    /\ analyzed
    /\ \E g \in 1..Len(analysis) :
          LET vs == ValuesOf(RowsOfType(analysis[g].metricType))
          IN  /\ Len(vs) = 3
              /\ Sum(vs) % 3 = 2
              /\ analysis[g].min < analysis[g].average
              /\ analysis[g].average < analysis[g].max

\* C6: current and unit of a group are taken from one and the same row, and
\* that row has the maximum timestamp of the group.
C6_CurrentFromLatestRow ==
    analyzed =>
        \A g \in 1..Len(analysis) :
            \E i \in 1..Len(batch) :
                /\ batch[i].metric_type = analysis[g].metricType
                /\ batch[i].value = analysis[g].current
                /\ batch[i].unit = analysis[g].unit
                /\ \A j \in 1..Len(batch) :
                      batch[j].metric_type = batch[i].metric_type
                          => batch[j].timestamp <= batch[i].timestamp

\* the scenario of the spec with the rows out of time order: Weight 178 on
\* day 2, 176 on day 3, 180 on day 1, and current = 176
C6_Witness ==
    /\ analyzed
    /\ Len(batch) = 3
    /\ \A i \in 1..3 : batch[i].metric_type = "Weight"
    /\ <<batch[1].value, batch[2].value, batch[3].value>> = <<17800, 17600, 18000>>
    /\ <<batch[1].timestamp, batch[2].timestamp, batch[3].timestamp>> = <<2, 3, 1>>
    /\ batch[2].unit # batch[1].unit
    /\ analysis[1].current = 17600
    /\ analysis[1].unit = batch[2].unit

(***************************************************************************)
(* Claims about the request handlers (checked under SpecApi).              *)
(***************************************************************************)
UserIdGiven == request.userId # Null /\ request.userId # ""
StoreAnswers == \A i \in 1..Len(request.db) : request.db[i] = "ok"

\* C7: for every value of the days parameter of a read-metrics or export
\* request, the window used in the store query is one of 7, 30, 90, 365 -
\* 30 for a value outside that list or a missing one - and the parameter
\* never causes an error.
C7_WindowIsAllowListed ==
    (request.handler \in {"metrics", "export"} /\ UserIdGiven /\ StoreAnswers) =>
        /\ \A i \in 1..Len(sqlLog) :
              sqlLog[i].table = "health_metrics"
                  => sqlLog[i].interval = validateDays(request.days)
        /\ response.status # 500

\* the content type of each export format
C8_ContentType ==
    ("csv" :> "text/csv") @@ ("markdown" :> "text/markdown")
        @@ ("html" :> "text/html") @@ ("text" :> "text/plain")

\* C8: for every value of the format parameter the exported document is in
\* one of the four formats, and an unrecognized token produces the csv
\* document (csv content type and header line), never an error and never
\* another format.
C8_FormatFallsBackToCsv ==
    (request.handler = "export" /\ response.shape = "document") =>
        /\ response.contentType = C8_ContentType[validateExportFormat(request.format)]
        /\ OrDefault(request.format, "csv") \notin validFormats =>
              /\ response.contentType = "text/csv"
              /\ response.extension = ".csv"
              /\ response.content[1] = Line("Metric Type,Value,Unit,Timestamp", <<>>)

\* the request is an insights request whose store query succeeded
InsightsQueried ==
    /\ request.handler = "insights"
    /\ UserIdGiven
    /\ StoreAnswers

\* no brace span of the text parses as a JSON object
NoSpanParses(text) ==
    \A i, j \in 1..Len(text) :
        (i < j /\ text[i] = "{" /\ text[j] = "}") => ~JsonParses(SubSeq(text, i, j))

\* C9: when the user has rows and the reply contains no brace span that
\* parses as a JSON object, the insights handler answers successfully with
\* {insights: the raw reply, recommendations: [], anomalies: []}.
C9_ParseFailureFallsBack ==
    (/\ InsightsQueried
     /\ SelectMetrics(request.userId, "30") # <<>>
     /\ request.ai = "ok"
     /\ NoSpanParses(request.reply))
        => response = JsonInsights(request.reply, <<>>, <<>>)

\* C10: when the store returns no rows for the user in the trailing window,
\* the insights handler returns the canned no-data narrative with empty
\* lists, and the text-generation API is not called in that request.
C10_NoDataSkipsModel ==
    (InsightsQueried /\ SelectMetrics(request.userId, "30") = <<>>)
        => /\ response = JsonInsights(CannedNoData, <<>>, <<>>)
           /\ openaiCalls = 0

\* user 1 has a row, but none in the last 30 days, and got the canned answer
C10_Witness ==
    /\ InsightsQueried
    /\ request.userId = "1"
    /\ \E i \in 1..Len(health_metrics) : health_metrics[i].user_id = 1
    /\ \A i \in 1..Len(health_metrics) :
          health_metrics[i].user_id = 1 => health_metrics[i].timestamp <= Now - 30
    /\ Len(sqlLog) = 1
    /\ response.status = 200
    /\ response.insights = CannedNoData
    /\ openaiCalls = 0


(***************************************************************************)
(* Claims about query (db-serverless) and retryWithTimeout.                *)
(***************************************************************************)
\* the delays slept so far start at the base and double each time
DelaysDouble ==
    /\ Len(retry.delays) >= 1 => retry.delays[1] = retry.backoffMs
    /\ \A k \in 1..(Len(retry.delays) - 1) :
          retry.delays[k + 1] = 2 * retry.delays[k]

\* C11: at most maxRetries attempts are made; the first attempt starts
\* without a delay; the delay slept after failed attempt k is the base
\* doubled k-1 times; when the last allowed attempt fails, its error is
\* thrown with no further delay and no further attempt.
C11_BoundedAttemptsAndBackoff ==
    /\ retry.maxRetries >= 0 => retry.attempts <= retry.maxRetries
    /\ retry.maxRetries < 0 => retry.attempts = 0
    /\ DelaysDouble
    /\ retry.pc = "racing" => Len(retry.delays) = retry.attempts - 1
    /\ retry.pc = "sleeping" => Len(retry.delays) = retry.attempts
    /\ (retry.outcome = "thrown" /\ retry.attempts = retry.maxRetries
            /\ retry.attempts >= 1)
          => /\ retry.thrown = retry.lastError
             /\ Len(retry.delays) = retry.attempts - 1

C11_Witness ==
    /\ retry.fn = "query"
    /\ retry.maxRetries = 3
    /\ retry.outcome = "thrown"
    /\ retry.attempts = 3
    /\ retry.delays = <<100, 200>>

\* a failure that is neither a connection failure nor a timeout
NonTransient(error) == error.kind \in {"validation", "constraint"}

\* C12: an attempt that fails with an error that is not a transient
\* connection or timeout failure ends the call: the error is thrown after
\* that attempt and no backoff delay is slept.
C12_NonTransientThrownAtOnce ==
    (retry.lastBy = "operation" /\ NonTransient(retry.lastError)
        /\ retry.outcome # "returned")
      => /\ retry.pc = "done"
         /\ retry.outcome = "thrown"
         /\ retry.thrown = retry.lastError

\* C13: when the timer fires while the attempt is pending, the attempt
\* fails with the timeout error; before the last attempt the call sleeps
\* the backoff delay and a new attempt is due, on the last attempt the
\* timeout error is thrown.  An attempt that settles first yields its own
\* result or its own error.
C13_TimeoutIsTransient ==
    [][(retry.pc = "racing" /\ retry'.pc # "racing") =>
        /\ retry'.lastBy = "timer" =>
              /\ retry'.lastError = TimeoutError
              /\ IF retry.attempt < retry.maxRetries
                 THEN /\ retry'.pc = "sleeping"
                      /\ Len(retry'.delays) = Len(retry.delays) + 1
                 ELSE /\ retry'.outcome = "thrown"
                      /\ retry'.thrown = TimeoutError
                      /\ retry'.delays = retry.delays
        /\ retry'.operation = "resolved" => retry'.outcome = "returned"
        /\ retry'.operation = "rejected" =>
              retry'.lastError = retry'.operationError]_vars

C13_Witness ==
    /\ retry.lastBy = "timer"
    /\ retry.pc = "racing"
    /\ retry.attempts = 2


(***************************************************************************)
(* Claims about the handlers' outbound calls and about POST /api/metrics.  *)
(***************************************************************************)
\* C14: a handler that calls the store or the text-generation API returns
\* even when the dependency never answers: no invoked handler is left
\* awaiting without a response.
C14_HandlerAnswers ==
    request.handler # "none" => response # Pending

\* the request's metric type is one of the eight and its value is a number
\* within the range of that type
MetricIsValid ==
    /\ validateMetricType(request.metricType)
    /\ validateMetricValue(request.value, request.metricType)

RowWrittenNow == \E i \in 1..Len(health_metrics) : health_metrics[i].timestamp = Now

\* C15: a write-metric request whose metric type is not one of the eight
\* types, or whose value is not a number within the range of its type, is
\* answered with a client error and appends no row.
C15_InvalidMetricRejected ==
    (request.handler = "write" /\ request.userId = "1" /\ StoreAnswers
        /\ ~MetricIsValid)
      => /\ response.status \in 400..499
         /\ ~RowWrittenNow

\* C16: a successful write appends exactly one row, with the request's
\* userId and metricType; for Blood Pressure with a composite payload the
\* stored value is the payload's systolic and the payload is stored; every
\* other write is stored without a composite payload.
C16_WriteAppendsOneRow ==
    [][(request.handler = "none" /\ request'.handler = "write"
            /\ response'.status = 201)
        => /\ Len(health_metrics') = Len(health_metrics) + 1
           /\ SubSeq(health_metrics', 1, Len(health_metrics)) = health_metrics
           /\ LET row == health_metrics'[Len(health_metrics')]
              IN  /\ row.user_id = UserIdNumber[request'.userId]
                  /\ row.metric_type = request'.metricType
                  /\ IF request'.metricType = "Blood Pressure"
                         /\ request'.compositeData # <<>>
                     THEN /\ row.value = request'.compositeData[1].systolic * 100
                          /\ row.composite_data = request'.compositeData
                     ELSE row.composite_data = <<>>]_vars

\* a Blood Pressure write with a composite payload was answered 201
C16_Witness ==
    /\ request.handler = "write"
    /\ request.metricType = "Blood Pressure"
    /\ request.compositeData # <<>>
    /\ request.value = "5"
    /\ response.status = 201
    /\ Len(health_metrics) = 2
    /\ health_metrics[2].value = 12000

\* C17: an export request that names a userId no user has is answered 404,
\* whatever the format and the days value.
C17_UnknownUserIs404 ==
    (request.handler = "export" /\ UserIdGiven /\ StoreAnswers
        /\ SelectUser(request.userId) = <<>>)
      => response.status = 404


(***************************************************************************)
(* Claims about projectNext7Days and groupMetricsByType.                   *)
(***************************************************************************)
\* C18: projectNext7Days returns exactly 7 values for a non-empty input and
\* the empty list for the empty input; every MetricAnalysis returned by
\* analyzeMetrics has a projection7Days of 7 values.
C18_ProjectionLength ==
    /\ projected => Len(projection) = (IF Len(series) = 0 THEN 0 ELSE 7)
    /\ analyzed => \A g \in 1..Len(analysis) : Len(analysis[g].projection7Days) = 7

\* a series of one value was projected, and a batch of one row was analyzed
C18_Witness ==
    /\ projected
    /\ Len(series) = 1
    /\ Len(projection) = 7
    /\ analyzed
    /\ Len(analysis) = 1
    /\ Len(analysis[1].projection7Days) = 7

\* the fitted window of the series, as a function on 0 .. length-1
WindowLength == IF Len(series) < 14 THEN Len(series) ELSE 14
Window == [x \in 0..(WindowLength - 1) |-> series[Len(series) - WindowLength + 1 + x]]

RECURSIVE SumOver(_, _)
\* f[0] + ... + f[n-1]
SumOver(f, n) == IF n = 0 THEN 0 ELSE f[n - 1] + SumOver(f, n - 1)

\* the least-squares line through the window is y = (LineA + LineB * x) / LineD
LineSx == SumOver([x \in 0..(WindowLength - 1) |-> x], WindowLength)
LineSy == SumOver(Window, WindowLength)
LineSxy == SumOver([x \in 0..(WindowLength - 1) |-> x * Window[x]], WindowLength)
LineSxx == SumOver([x \in 0..(WindowLength - 1) |-> x * x], WindowLength)
LineB == (WindowLength * LineSxy - LineSx * LineSy) * WindowLength
LineD == (WindowLength * LineSxx - LineSx * LineSx) * WindowLength
LineA == LineSy * (WindowLength * LineSxx - LineSx * LineSx)
            - (WindowLength * LineSxy - LineSx * LineSy) * LineSx

\* v is the hundredth nearest to p / d (d > 0), the upper one of two
NearestHundredth(v, p, d) == 2 * v * d <= 2 * p + d /\ 2 * v * d > 2 * p - d

\* C19: the projection depends on the last min(length, 14) values only - it
\* is the projection of that window alone - and where the window has a
\* least-squares line, the k-th output is intercept + slope * (window
\* length + k) rounded to the nearest hundredth, the window indexed from 0.
C19_ProjectionFromWindow ==
    (projected /\ Len(series) >= 1) =>
        /\ projection = projectNext7Days([i \in 1..WindowLength |-> Window[i - 1]])
        /\ LineD # 0 =>
              \A k \in 1..7 :
                  /\ projection[k].kind = "finite"
                  /\ NearestHundredth(projection[k].cents,
                                      LineA + LineB * (WindowLength + k), LineD)

\* a series of FitWindow + MaxPrefix values was projected
C19_Witness ==
    /\ projected
    /\ Len(series) = 16
    /\ series[1] = 200
    /\ projection[1].kind = "finite"
    /\ projection[1].cents # projection[7].cents

\* the distinct types of the batch in the order of their first appearance
FirstIndex(t) ==
    CHOOSE i \in 1..Len(batch) :
        /\ batch[i].metric_type = t
        /\ \A j \in 1..(i - 1) : batch[j].metric_type # t

TypesOfBatch == {batch[i].metric_type : i \in 1..Len(batch)}

\* C20: analyzeMetrics returns exactly one MetricAnalysis per distinct
\* metric_type of the batch, in the order of first appearance;
\* groupMetricsByType puts every row in the group keyed by its metric_type,
\* in input order.
C20_OneGroupPerTypeInOrder ==
    analyzed =>
        /\ ~analysisError
        /\ {analysis[g].metricType : g \in 1..Len(analysis)} = TypesOfBatch
        /\ Len(analysis) = Cardinality(TypesOfBatch)
        /\ \A g, h \in 1..Len(analysis) :
              g < h => FirstIndex(analysis[g].metricType)
                          < FirstIndex(analysis[h].metricType)
        /\ LET grouped == groupMetricsByType(batch).entries
           IN  \A g \in 1..Len(grouped) :
                  grouped[g].list = RowsOfType(grouped[g].key)


(***************************************************************************)
(* Claims about side effects of the Analytics Engine.                      *)
(***************************************************************************)
\* C21: an Analytics Engine function leaves the array it is handed as it
\* was - the same elements in the same order - and a second call on the
\* array returns what the first call returned.
C21_InputUntouched ==
    /\ arg.calls >= 1 => arg.array = arg.before
    /\ arg.calls = 2 => arg.again = arg.result


(***************************************************************************)
(* Claims about the CSV export.                                            *)
(***************************************************************************)
\* a record of the CSV document read back: its four quoted fields, an empty
\* unit field read as no unit
ParseCsvRecord(line) ==
    [type |-> line.args[1], value |-> line.args[2],
     unit |-> IF line.args[3] = "" THEN Null ELSE line.args[3],
     timestamp |-> line.args[4]]

\* the (type, value, unit, timestamp) of a stored row, as text
SourceTuple(m) ==
    [type |-> m.metric_type, value |-> ToString(m.value), unit |-> m.unit,
     timestamp |-> ToString(m.timestamp)]

\* C22: the CSV document of an export, read back record by record after the
\* header line, gives the (type, value, unit, timestamp) of each exported
\* row, in the same order - also for rows with no unit and for Blood
\* Pressure rows with a composite payload.
C22_CsvRoundTrip ==
    (request.handler = "export" /\ response.shape = "document"
        /\ response.contentType = "text/csv") =>
        LET rows == SelectMetrics(request.userId, OrDefault(request.days, "30"))
        IN  /\ Len(response.content) = Len(rows) + 1
            /\ \A i \in 1..Len(rows) :
                  ParseCsvRecord(response.content[i + 1]) = SourceTuple(rows[i])


(***************************************************************************)
(* Claims about /api/init.                                                 *)
(***************************************************************************)
\* the request carries the configured secret as a bearer token
BearsSecret == request'.authorization = "Bearer " \o request'.initSecret

\* C23: with INIT_SECRET configured, an init request (GET or POST) sends
\* statements to the store only if its authorization header is
\* `Bearer <INIT_SECRET>`; any other request is answered 401 and sends
\* nothing.  Initializing an initialized store whose statements succeed
\* leaves the schema and all rows as they were.
C23_InitGuardedAndRepeatable ==
    [][(request.handler = "none" /\ request'.handler = "init") =>
        /\ (request'.initSecret # Null /\ ~BearsSecret) =>
              /\ response'.status = 401
              /\ sqlLog' = <<>>
              /\ schema' = schema
        /\ (request'.initSecret # Null /\ BearsSecret) => sqlLog' # <<>>
        /\ (schema = FullSchema /\ response'.status = 200) =>
              /\ schema' = schema
              /\ users' = users
              /\ health_metrics' = health_metrics]_vars

\* an initialized store with rows was initialized again by a POST bearing
\* the secret
C23_Witness ==
    /\ request.handler = "init"
    /\ request.method = "POST"
    /\ request.initSecret = "s3cret"
    /\ request.authorization = "Bearer s3cret"
    /\ response.status = 200
    /\ Len(sqlLog) = 3
    /\ schema = FullSchema
    /\ Len(health_metrics) = 2


LineStep == Window[1] - Window[0]
ExactLine ==
    /\ WindowLength >= 2
    /\ \A x \in 0..(WindowLength - 1) : Window[x] = Window[0] + LineStep * x

\* C25: for a window of n >= 2 values exactly on a line v_i = a + b*i, the
\* k-th projected value is a + b*(n + k): the first projected point is at
\* position n+1; for a constant window all 7 values are the constant.
C25_ExactLineContinued ==
    (projected /\ ExactLine) =>
        /\ \A k \in 1..7 :
              projection[k] = Finite(Window[0] + LineStep * (WindowLength + k))
        /\ LineStep = 0 => \A k \in 1..7 : projection[k] = Finite(Window[0])

\* 14 values rising by 0.03 a day after an older value: 1.45 comes first
C25_Witness ==
    /\ projected
    /\ Len(series) = 15
    /\ ExactLine
    /\ LineStep = 3
    /\ projection[1] = Finite(145)
    /\ projection[7] = Finite(163)


(***************************************************************************)
(* Claims about what a retried call does to the store, and about the       *)
(* retry limit.                                                            *)
(***************************************************************************)
\* C26: for one call of query, the statement takes effect in the store at
\* most once, also when an attempt times out and is retried.
C26_EffectAtMostOnce ==
    retry.fn = "query" => retry.effects <= 1

\* C27: for every configured retry limit - 0, negative and unparsable
\* included - the operation is invoked at least once, and an error thrown
\* is one an attempt produced.
C27_AtLeastOneAttempt ==
    retry.pc = "done" =>
        /\ retry.attempts >= 1
        /\ retry.outcome = "thrown" =>
              /\ retry.lastBy # "none"
              /\ retry.thrown = retry.lastError


(***************************************************************************)
(* Claims about Dashboard and AIInsights.                                  *)
(***************************************************************************)
\* the request issued last, and whether its response is the one held
LatestRequest == [request |-> page.issued, userId |-> page.userId]

\* C28: the error state does not outlive a successful fetch: when the fetch
\* issued last has succeeded and nothing is in flight, the component shows
\* data, not the error of an earlier fetch.
C28_ErrorClearedBySuccess ==
    (page.component # "none" /\ page.inflight = {}
        /\ page.issued \notin page.failed)
      => Renders(page) = "data"

\* C29: once all responses have arrived and none has failed, the data held
\* are those of the request issued last, whatever the order of arrival;
\* data fetched for a previous userId do not remain.
C29_LatestRequestWins ==
    (page.component # "none" /\ page.inflight = {} /\ page.failed = {})
      => /\ page.data = LatestRequest
         /\ page.component = "Dashboard" => page.analysis = LatestRequest
         /\ page.data.userId = page.userId


(***************************************************************************)
(* Claims about AuthProvider.                                              *)
(***************************************************************************)
\* C30: after the initial load the user in memory and the user persisted
\* under 'currentUser' agree: both are the user of the latest login, both
\* are absent after a logout, and a reload brings back the persisted user.
C30_MemoryAgreesWithStorage ==
    auth.phase = "loaded" =>
        /\ auth.currentUser = Null <=> auth.user = NoUser
        /\ auth.user # NoUser => /\ auth.user \in KnownUsers
                                 /\ auth.currentUser = JSONstringify(auth.user)
        /\ auth.last.call = "login" =>
              /\ auth.user = auth.last.user
              /\ auth.currentUser = JSONstringify(auth.last.user)
        /\ auth.last.call = "logout" =>
              /\ auth.user = NoUser
              /\ auth.currentUser = Null

\* a login, a logout, another login and a reload have happened, and the
\* provider has loaded the user of the second login
C30_Witness ==
    /\ auth.phase = "loaded"
    /\ auth.calls = 3
    /\ auth.reloads = 1
    /\ auth.last.call = "login"
    /\ auth.user.id = 12
    /\ ~auth.loading

\* a reload after a logout has happened and no user came back
C30_WitnessLogout ==
    /\ auth.phase = "loaded"
    /\ auth.calls = 2
    /\ auth.reloads = 1
    /\ auth.last.call = "logout"
    /\ auth.loading

====
